---- MODULE Spec2Model ----
(***************************************************************************)
(* A model of pycomposer's AAEComposer                                     *)
(* (src/Algorithmic-Composition/pycomposer/aae_composer.py).               *)
(*                                                                         *)
(* The object's private fields, the external collaborators it calls (the   *)
(* GAN's train, the generative model's draw, the MIDI controller's save)   *)
(* and the operations __init__, learn, compose and the two read-only       *)
(* properties are modelled.  The collaborators are opaque: train returns   *)
(* any pair of model objects, draw returns any tensor.                     *)
(*                                                                         *)
(* Objects are identified by strings.  Times are integer multiples of a    *)
(* unit; start and end are accumulated by the same additions the code     *)
(* performs.  A velocity mean is the exact rational <<num, den>>.          *)
(***************************************************************************)
EXTENDS Integers, Sequences, FiniteSets, TLC

VARIABLES
    ctor_args,            \* the arguments __init__ was called with
    constructed,          \* "ok", or the exception __init__ raised
    midi_df_list,         \* self.__midi_df_list
    noise_sampler,        \* self.__noise_sampler
    true_sampler,         \* self.__true_sampler
    generative_model,     \* self.__generative_model
    discriminative_model, \* self.__discriminative_model
    GAN,                  \* self.__GAN (its gans_value_function)
    time_fraction,        \* self.__time_fraction
    min_pitch,            \* self.__min_pitch
    max_pitch,            \* self.__max_pitch
    built,                \* the default objects __init__ built
    attached_sampler,     \* generative_model.noise_sampler as set by __init__
    program_list,         \* self.__noise_sampler.program_list
    draw_arr,             \* the tensor self.__generative_model.draw() yields
    op,                   \* the last operation called on the object
    raised,               \* the exception it raised, or "none"
    returned,             \* the value it returned, or "none"
    before,               \* the four stored objects when it was called
    train_call,           \* the arguments and the result of its GAN.train call
    trained,              \* the pair the latest GAN.train call returned, or <<>>
    drawn_from,           \* the model whose draw() it called
    file_path_arg,        \* compose's file_path argument
    velocity_mean_arg,    \* compose's velocity_mean argument
    velocity_loc,         \* loc=velocity_mean as passed to np.random.normal
    generated_arr,        \* compose's local generated_arr
    generated_list,       \* compose's local generated_list (before the merge)
    save_calls            \* the MidiController.save calls it made

vars == <<ctor_args, constructed, midi_df_list, noise_sampler, true_sampler,
          generative_model, discriminative_model, GAN, time_fraction,
          min_pitch, max_pitch, built, attached_sampler, program_list,
          draw_arr, op, raised, returned, before, train_call, trained,
          drawn_from,
          file_path_arg, velocity_mean_arg, velocity_loc, generated_arr,
          generated_list, save_calls>>

None == "None"

(***************************************************************************)
(* Bounds of the model.                                                    *)
(***************************************************************************)
MaxOnes == 2

(***************************************************************************)
(* Input domains.                                                          *)
(***************************************************************************)
FilePaths == {"a.mid", "b.mid"}
\* velocity_mean as the caller passes it: None, written <<>>, or a number
\* <<num, den>>
NoneMean == <<>>
VelocityMeans == {NoneMean, <<64, 1>>}
\* a MIDI file as extract() returns it: a table of notes, of which the
\* model keeps the velocity column.  Every file has two notes or more and
\* there is at least one file, so that the means and standard deviations of
\* lines 384-390 are numbers.
Velocities == {40, 100}
MidiFiles == [1..2 -> Velocities] \cup [1..3 -> Velocities]
\* noise_sampler.program_list; its length is the channel axis of the tensors
ProgramLists == {<<40, 0>>}
\* <<min_pitch, max_pitch>>
PitchRanges == {<<60, 62>>}
\* time_fraction, in units of time
TimeFractions == {2}

(***************************************************************************)
(* Tensors.  A tensor is [shape |-> <<B, K, S, P>>, val |-> the function   *)
(* from the cells <<b, k, s, p>> (0-based) to their values]; the value 2   *)
(* stands for any value other than 0 and 1.                                *)
(***************************************************************************)
Cells(shape) ==
    (0..(shape[1]-1)) \X (0..(shape[2]-1)) \X (0..(shape[3]-1)) \X (0..(shape[4]-1))

MakeArr(shape, ones, others) ==
    [shape |-> shape,
     val   |-> [c \in Cells(shape) |->
                   IF c \in ones THEN 1 ELSE IF c \in others THEN 2 ELSE 0]]

\* the tensors of one shape with at most MaxOnes cells equal to 1 and at
\* most one cell of another nonzero value
RECURSIVE SubsetsUpTo(_, _)
\* the subsets of S with at most n elements
SubsetsUpTo(S, n) ==
    IF n = 0 THEN {{}}
    ELSE LET smaller == SubsetsUpTo(S, n - 1)
         IN  smaller \cup { x \cup {c} : x \in smaller, c \in S }

ArrsOfShape(shape) ==
    { MakeArr(shape, ones, others) :
        ones \in SubsetsUpTo(Cells(shape), MaxOnes),
        others \in {{}} \cup { {c} : c \in Cells(shape) } }

\* two batches of two bars with the pitch axis dim long, and one batch of
\* one bar with the pitch axis two longer
Shapes(channel, dim) == { <<2, channel, 2, dim>>, <<1, channel, 1, dim + 2>> }

OneCells(arr) == { c \in Cells(arr.shape) : arr.val[c] = 1 }

(***************************************************************************)
(* Sequence helpers: pandas' shift, drop_duplicates and sort_values (a     *)
(* stable sort) on a table kept as a sequence of rows.                     *)
(***************************************************************************)
RECURSIVE DropDuplicates(_, _)
\* Series.drop_duplicates(): the first occurrence of every value is kept;
\* seen = the values so far
DropDuplicates(values, seen) ==
    IF values = <<>> THEN <<>>
    ELSE IF Head(values) \in seen
         THEN DropDuplicates(Tail(values), seen)
         ELSE <<Head(values)>> \o DropDuplicates(Tail(values), seen \cup {Head(values)})

RECURSIVE DropDuplicatesEnd(_, _)
\* DataFrame.drop_duplicates(["end"]): the first row of every end is kept
DropDuplicatesEnd(rows, seen) ==
    IF rows = <<>> THEN <<>>
    ELSE IF Head(rows).end \in seen
         THEN DropDuplicatesEnd(Tail(rows), seen)
         ELSE <<Head(rows)>> \o DropDuplicatesEnd(Tail(rows), seen \cup {Head(rows).end})

\* the order of sort_values(by=["start", "end"])
StartEndLeq(a, b) == a.start < b.start \/ (a.start = b.start /\ a.end <= b.end)

RECURSIVE InsertSorted(_, _)
\* row goes after every row that is not greater: the sort is stable
InsertSorted(row, sorted) ==
    IF sorted = <<>> THEN <<row>>
    ELSE IF StartEndLeq(Head(sorted), row)
         THEN <<Head(sorted)>> \o InsertSorted(row, Tail(sorted))
         ELSE <<row>> \o sorted

RECURSIVE SortValuesStartEnd(_)
SortValuesStartEnd(rows) ==
    IF rows = <<>> THEN <<>>
    ELSE InsertSorted(rows[Len(rows)], SortValuesStartEnd(SubSeq(rows, 1, Len(rows) - 1)))

IsSortedStartEnd(rows) ==
    \A i \in 1..(Len(rows) - 1) : StartEndLeq(rows[i], rows[i + 1])

RECURSIVE Concat(_)
\* pd.concat of a list of tables
Concat(tables) ==
    IF tables = <<>> THEN <<>> ELSE Head(tables) \o Concat(Tail(tables))

(***************************************************************************)
(* Velocity statistics (compose, lines 383-386).  A mean is the exact      *)
(* rational <<num, den>> with den > 0.                                     *)
(***************************************************************************)
RECURSIVE SumSeq(_)
SumSeq(xs) == IF xs = <<>> THEN 0 ELSE Head(xs) + SumSeq(Tail(xs))

RatAdd(a, b) == <<a[1] * b[2] + b[1] * a[2], a[2] * b[2]>>
RatEq(a, b) == a[1] * b[2] = b[1] * a[2]

\* midi_df.velocity.mean()
SeriesMean(velocity) == <<SumSeq(velocity), Len(velocity)>>

RECURSIVE RatSum(_)
RatSum(qs) == IF qs = <<>> THEN <<0, 1>> ELSE RatAdd(Head(qs), RatSum(Tail(qs)))

\* np.array([df.velocity.mean() for df in midi_df_list]).mean()
MeanOfFileMeans(df_list) ==
    LET means == [i \in 1..Len(df_list) |-> SeriesMean(df_list[i])]
        total == RatSum(means)
    IN  <<total[1], total[2] * Len(df_list)>>

\* lines 383-386: the loc handed to np.random.normal
VelocityLoc(velocity_mean, df_list) ==
    IF velocity_mean = NoneMean THEN MeanOfFileMeans(df_list) ELSE velocity_mean

\* lines 412-413: int(np.random.normal(loc=velocity_mean, scale=velocity_std)).
\* The sample is random and nothing in compose reads it, so a velocity is
\* kept as the Gaussian it is sampled from, named by its mean; the scale
\* (velocity_std, lines 387-390) only spreads the samples and is left out.
SampleVelocity(loc) == [sampled_with_mean |-> loc]

(***************************************************************************)
(* compose, lines 392-417: the tensor becomes a list of notes.             *)
(***************************************************************************)
\* the (seq, pitch) index pairs of one [batch, program_key] plane in
\* row-major order, the order np.where returns them in
RowMajor(S, P) == [i \in 1..(S * P) |-> <<(i - 1) \div P, (i - 1) % P>>]

\* np.where(generated_arr[batch, program_key] != 0): it also selects the
\* cells that are neither 0 nor 1
WhereNonzero(arr, batch, program_key) ==
    SelectSeq(RowMajor(arr.shape[3], arr.shape[4]),
              LAMBDA sp : arr.val[<<batch, program_key, sp[1], sp[2]>>] # 0)

\* line 397: np.where(generated_arr[batch, program_key] == 1)
WhereOne(arr, batch, program_key) ==
    SelectSeq(RowMajor(arr.shape[3], arr.shape[4]),
              LAMBDA sp : arr.val[<<batch, program_key, sp[1], sp[2]>>] = 1)

\* lines 398-406: key_df with the columns seq, pitch, p.  Every p is 1, so
\* the sort by p leaves the rows in np.where's order.
KeyDf(arr, batch, program_key) ==
    LET w == WhereOne(arr, batch, program_key)
    IN  [i \in 1..Len(w) |->
            [seq |-> w[i][1], pitch |-> w[i][2],
             p |-> arr.val[<<batch, program_key, w[i][1], w[i][2]>>]]]

\* pitches counted from min_pitch + 1
NotePitchOffByOne(pitch_index, minp) == pitch_index + minp + 1

\* line 411: pitch = int(df.pitch.values[i] + self.__min_pitch)
NotePitch(pitch_index, minp) == pitch_index + minp

RECURSIVE SeqLoop(_, _, _)
\* lines 408-410: for seq in range(shape[2]): df = key_df[key_df.seq == seq],
\* then its rows in order
SeqLoop(key_df, seq, S) ==
    IF seq >= S THEN <<>>
    ELSE SelectSeq(key_df, LAMBDA r : r.seq = seq) \o SeqLoop(key_df, seq + 1, S)

RECURSIVE KeyLoop(_, _, _, _, _, _, _, _)
\* lines 395-417, the loops over batch and program_key flattened into the
\* index slot = batch * shape[1] + program_key.  start and end advance once
\* per (batch, program_key): lines 416-417 are in the program_key loop.
KeyLoop(arr, slot, start, end, tf, minp, programs, loc) ==
    LET K == arr.shape[2]
        batch == slot \div K
        program_key == slot % K
        rows == SeqLoop(KeyDf(arr, batch, program_key), 0, arr.shape[3])
        program == programs[program_key + 1]
        notes == [j \in 1..Len(rows) |->
                    [program  |-> program,
                     start    |-> start,
                     end      |-> end,
                     pitch    |-> NotePitch(rows[j].pitch, minp),
                     velocity |-> SampleVelocity(loc)]]
    IN  IF slot >= arr.shape[1] * K THEN <<>>
        ELSE notes \o KeyLoop(arr, slot + 1, start + tf, end + tf, tf, minp,
                              programs, loc)

\* lines 392-417: generated_list
GeneratedList(arr, tf, minp, programs, loc) ==
    KeyLoop(arr, 0, 0, tf, tf, minp, programs, loc)

(***************************************************************************)
(* compose, lines 430-442: notes of one pitch that follow one another are  *)
(* merged, and the table is sorted.  The columns next_start and next_end   *)
(* that the code leaves in the table are not kept here.                    *)
(***************************************************************************)
\* lines 433-438 for the rows of one pitch
MergePitch(rows) ==
    LET df == SortValuesStartEnd(rows)
        \* lines 435-437: shift(-1) leaves NaN in the last row, and NaN
        \* equals nothing
        merged == [i \in 1..Len(df) |->
                     IF i < Len(df) /\ df[i].end = df[i + 1].start
                     THEN [df[i] EXCEPT !.end = df[i + 1].end]
                     ELSE df[i]]
    IN  DropDuplicatesEnd(merged, {})

\* line 430: generated_midi_df.pitch.drop_duplicates()
PitchArr(notes) ==
    DropDuplicates([i \in 1..Len(notes) |-> notes[i].pitch], {})

\* lines 431-439: df_list
DfList(notes) ==
    LET pitch_arr == PitchArr(notes)
    IN  [i \in 1..Len(pitch_arr) |->
            MergePitch(SelectSeq(notes, LAMBDA r : r.pitch = pitch_arr[i]))]

\* line 441: pd.concat raises ValueError for an empty list of tables
ConcatRaises(df_list) == df_list = <<>>

\* lines 441-442: the table handed to save
GeneratedMidiDf(notes) == SortValuesStartEnd(Concat(DfList(notes)))

(***************************************************************************)
(* __init__, lines 111-329.                                                *)
(***************************************************************************)
ArgNames == {"true_sampler", "noise_sampler", "generative_model",
             "discriminative_model", "gans_value_function"}

\* an object the caller supplies for an argument
Supplied(name) == "caller's " \o name

\* the object __init__ builds for an argument that is None (lines 157, 168,
\* 253, 307, 318)
DefaultObject(name) ==
    CASE name = "true_sampler"         -> "BarTrueSampler"
      [] name = "noise_sampler"        -> "BarNoiseSampler"
      [] name = "generative_model"     -> "Generator"
      [] name = "discriminative_model" -> "Discriminator"
      [] name = "gans_value_function"  -> "MiniMax"

ConstructorArgs ==
    { [n \in ArgNames |-> IF n \in given THEN Supplied(n) ELSE None] :
        given \in SUBSET ArgNames }

\* lines 156, 167, 182, 262, 317: "if x is None: x = <default>"
ArgOrDefault(args, name) ==
    IF args[name] = None THEN DefaultObject(name) ELSE args[name]

\* lines 178-179: program_list = [df.program for each file], then
\* list(set(program_list)).  df.program is a column of the table extract()
\* returned, a pandas Series, and set() hashes its elements: hashing a
\* Series raises TypeError.  The branch is taken when a noise sampler is
\* supplied and raises as soon as there is one file.
ProgramSetRaises(args, df_list) ==
    args["noise_sampler"] # None /\ Len(df_list) > 0

\* the defaults built before line 179 raises, or all of them
BuiltDefaults(args, df_list) ==
    IF ProgramSetRaises(args, df_list)
    THEN { n \in {"true_sampler"} : args[n] = None }
    ELSE { n \in ArgNames : args[n] = None }

Unset == "unset"

\* the state __init__ leaves: Init of every specification
Construct(args, df_list, pitch_range, tf, programs, arr) ==
    /\ ctor_args = args
    /\ midi_df_list = df_list
    /\ built = BuiltDefaults(args, df_list)
    /\ IF ProgramSetRaises(args, df_list)
       THEN /\ constructed = "TypeError"
            /\ noise_sampler = Unset /\ true_sampler = Unset
            /\ generative_model = Unset /\ discriminative_model = Unset
            /\ GAN = Unset /\ attached_sampler = Unset
            /\ time_fraction = Unset /\ min_pitch = Unset /\ max_pitch = Unset
            /\ program_list = Unset /\ draw_arr = Unset
       ELSE /\ constructed = "ok"
            /\ noise_sampler = ArgOrDefault(args, "noise_sampler")
            /\ true_sampler = ArgOrDefault(args, "true_sampler")
            /\ generative_model = ArgOrDefault(args, "generative_model")
            /\ discriminative_model = ArgOrDefault(args, "discriminative_model")
            /\ GAN = [gans_value_function |-> ArgOrDefault(args, "gans_value_function")]
            \* line 260: generative_model.noise_sampler = noise_sampler
            /\ attached_sampler = ArgOrDefault(args, "noise_sampler")
            /\ time_fraction = tf
            /\ min_pitch = pitch_range[1]
            /\ max_pitch = pitch_range[2]
            /\ program_list = programs
            /\ draw_arr = arr
    /\ op = "__init__"
    /\ raised = IF ProgramSetRaises(args, df_list) THEN "TypeError" ELSE "none"
    /\ returned = "none"
    /\ before = Unset
    /\ train_call = "none"
    /\ trained = <<>>
    /\ drawn_from = "none"
    /\ file_path_arg = "none"
    /\ velocity_mean_arg = <<>>
    /\ velocity_loc = <<>>
    /\ generated_arr = "none"
    /\ generated_list = <<>>
    /\ save_calls = <<>>

\* the four objects the composer stores
Stored == [generative_model     |-> generative_model,
           discriminative_model |-> discriminative_model,
           true_sampler         |-> true_sampler,
           noise_sampler        |-> noise_sampler]

CtorFields == <<ctor_args, constructed, midi_df_list, GAN, time_fraction,
                min_pitch, max_pitch, built, attached_sampler, program_list>>

\* what an operation other than compose leaves of compose's record
NoComposeRecord ==
    /\ drawn_from' = "none"
    /\ file_path_arg' = "none"
    /\ velocity_mean_arg' = <<>>
    /\ velocity_loc' = <<>>
    /\ generated_arr' = "none"
    /\ generated_list' = <<>>
    /\ save_calls' = <<>>

(***************************************************************************)
(* learn, lines 331-348.                                                   *)
(***************************************************************************)
\* the model objects GAN.train may return: the ones it was given, or others
GeneratorPool(g) == {g, "trained generator 1", "trained generator 2"}
DiscriminatorPool(d) == {d, "trained discriminator"}

\* the tensors a trained generator may yield: none of its cells 1, or its
\* first cell 1
LearnedArrs(arr) ==
    {MakeArr(arr.shape, {}, {}), MakeArr(arr.shape, {<<0, 0, 0, 0>>}, {})}

\* a learn that leaves the stored pair as it was
KeepModels(old, pair) == old

\* lines 347-348: the pair train returned replaces the stored pair
StoreTrained(old, pair) == pair

Learn ==
    /\ constructed = "ok"
    /\ \E g \in GeneratorPool(generative_model),
          d \in DiscriminatorPool(discriminative_model),
          arr \in LearnedArrs(draw_arr) :
          LET stored == StoreTrained(<<generative_model, discriminative_model>>, <<g, d>>)
          IN  /\ train_call' = [gans_value_function  |-> GAN.gans_value_function,
                                true_sampler         |-> true_sampler,
                                generative_model     |-> generative_model,
                                discriminative_model |-> discriminative_model,
                                returned             |-> <<g, d>>]
              /\ trained' = <<g, d>>
              /\ generative_model' = stored[1]
              /\ discriminative_model' = stored[2]
              /\ draw_arr' = arr
    /\ op' = "learn"
    /\ raised' = "none"
    /\ returned' = "none"
    /\ before' = Stored
    /\ NoComposeRecord
    /\ UNCHANGED <<CtorFields, true_sampler, noise_sampler>>

(***************************************************************************)
(* compose, lines 363-447.                                                 *)
(***************************************************************************)
Compose ==
    /\ constructed = "ok"
    /\ \E file_path \in FilePaths, velocity_mean \in VelocityMeans :
          LET loc   == VelocityLoc(velocity_mean, midi_df_list)
              notes == GeneratedList(draw_arr, time_fraction, min_pitch,
                                     program_list, loc)
          IN  /\ drawn_from' = generative_model
              /\ generated_arr' = draw_arr
              /\ file_path_arg' = file_path
              /\ velocity_mean_arg' = velocity_mean
              /\ velocity_loc' = loc
              /\ generated_list' = notes
              /\ IF ConcatRaises(DfList(notes))
                 THEN /\ raised' = "ValueError"
                      /\ save_calls' = <<>>
                 ELSE /\ raised' = "none"
                      /\ save_calls' = <<[file_path |-> file_path,
                                          note_df   |-> GeneratedMidiDf(notes)]>>
    /\ op' = "compose"
    /\ returned' = "none"
    /\ before' = Stored
    /\ train_call' = "none"
    /\ UNCHANGED <<CtorFields, true_sampler, noise_sampler, generative_model,
                   discriminative_model, draw_arr, trained>>

(***************************************************************************)
(* The properties generative_model and true_sampler, lines 449-463.        *)
(***************************************************************************)
AssignedValues == {"another object"}

\* an ordinary setter: it stores the value
SetWritable(stored, value) == [raised |-> "none", stored |-> value]

\* lines 453-455: the setter of both properties raises and stores nothing
SetReadonly(stored, value) == [raised |-> "TypeError", stored |-> stored]

\* lines 449-451
GetGenerativeModel == generative_model

\* lines 459-461
GetTrueSampler == true_sampler

PropertyStep(name, result) ==
    /\ op' = name
    /\ raised' = result.raised
    /\ before' = Stored
    /\ train_call' = "none"
    /\ NoComposeRecord
    /\ UNCHANGED <<CtorFields, noise_sampler, discriminative_model, draw_arr,
                   trained>>

\* composer.generative_model = value
AssignGenerativeModel ==
    /\ constructed = "ok"
    /\ \E value \in AssignedValues :
          LET r == SetReadonly(generative_model, value)
          IN  /\ generative_model' = r.stored
              /\ PropertyStep("generative_model = value", r)
    /\ returned' = "none"
    /\ UNCHANGED true_sampler

\* composer.true_sampler = value
AssignTrueSampler ==
    /\ constructed = "ok"
    /\ \E value \in AssignedValues :
          LET r == SetReadonly(true_sampler, value)
          IN  /\ true_sampler' = r.stored
              /\ PropertyStep("true_sampler = value", r)
    /\ returned' = "none"
    /\ UNCHANGED generative_model

\* composer.generative_model
ReadGenerativeModel ==
    /\ constructed = "ok"
    /\ returned' = GetGenerativeModel
    /\ PropertyStep("generative_model", [raised |-> "none"])
    /\ UNCHANGED <<generative_model, true_sampler>>

\* composer.true_sampler
ReadTrueSampler ==
    /\ constructed = "ok"
    /\ returned' = GetTrueSampler
    /\ PropertyStep("true_sampler", [raised |-> "none"])
    /\ UNCHANGED <<generative_model, true_sampler>>

Next ==
    \/ Learn
    \/ Compose
    \/ AssignGenerativeModel
    \/ AssignTrueSampler
    \/ ReadGenerativeModel
    \/ ReadTrueSampler

(***************************************************************************)
(* Specifications.  They share Next and differ in the inputs of __init__   *)
(* that Init draws.                                                        *)
(***************************************************************************)
NoArgs == [n \in ArgNames |-> None]
OneMidiList == <<<<40, 100>>>>
MidiLists == { <<f>> : f \in MidiFiles } \cup { <<f, g>> : f \in MidiFiles, g \in MidiFiles }
SmallArrs(shape) ==
    { MakeArr(shape, ones, {}) : ones \in {{}, {<<0, 0, 0, 0>>}, {<<0, 0, 0, 0>>, <<0, 1, 0, 0>>}} }

\* every combination of supplied and defaulted constructor arguments
Init ==
    \E args \in ConstructorArgs, arr \in SmallArrs(<<1, 2, 1, 2>>) :
        Construct(args, OneMidiList, <<60, 62>>, 1, <<0, 24>>, arr)

Spec == Init /\ [][Next]_vars

\* every tensor of the bounded shapes
InitCompose ==
    \E pitch_range \in PitchRanges, tf \in TimeFractions, programs \in ProgramLists :
      \E shape \in Shapes(Len(programs), pitch_range[2] - pitch_range[1]) :
        \E arr \in ArrsOfShape(shape) :
            Construct(NoArgs, OneMidiList, pitch_range, tf, programs, arr)

SpecCompose == InitCompose /\ [][Next]_vars

\* every list of one or two MIDI files
InitVelocity ==
    \E df_list \in MidiLists, arr \in SmallArrs(<<1, 2, 1, 2>>) :
        Construct(NoArgs, df_list, <<60, 62>>, 1, <<0, 24>>, arr)

SpecVelocity == InitVelocity /\ [][Next]_vars

(***************************************************************************)
(* Properties.                                                             *)
(***************************************************************************)
\* the generator/discriminator pair fixed at construction
ConstructedModels ==
    <<ArgOrDefault(ctor_args, "generative_model"),
      ArgOrDefault(ctor_args, "discriminative_model")>>

\* the pair the most recent learn call got from train, or the constructed one
LatestModels == IF trained = <<>> THEN ConstructedModels ELSE trained

\* C1: compose draws from the generative model the most recent learn call
\* got from train, and a learn call trains the pair the previous learn
\* call got, with the true sampler fixed at construction; before the first
\* learn call both use the models fixed at construction.
C1_LearnedModelsAreUsed ==
    [][ /\ op' = "compose" => drawn_from' = LatestModels[1]
        /\ op' = "learn" =>
              /\ train_call'.generative_model = LatestModels[1]
              /\ train_call'.discriminative_model = LatestModels[2]
              /\ train_call'.true_sampler = ArgOrDefault(ctor_args, "true_sampler")
              /\ trained' = train_call'.returned ]_vars

C1_Witness ==
    /\ op = "compose"
    /\ trained = <<"trained generator 2", "trained discriminator">>
    /\ drawn_from = "trained generator 2"
    /\ ConstructedModels[1] = Supplied("generative_model")

\* C2: assigning to generative_model or true_sampler raises TypeError and
\* leaves the four stored objects as they were; reading either returns the
\* stored object.
C2_PropertiesAreReadOnly ==
    /\ op \in {"generative_model = value", "true_sampler = value"} =>
          raised = "TypeError" /\ Stored = before
    /\ op = "generative_model" => raised = "none" /\ returned = generative_model
    /\ op = "true_sampler" => raised = "none" /\ returned = true_sampler

C2_Witness ==
    /\ op = "generative_model = value"
    /\ raised = "TypeError"
    /\ trained # <<>>
    /\ generative_model = "trained generator 1"

\* C3: a compose call ends with exactly one save call, with the file_path it
\* was given and a note table sorted by start, then end.
C3_ComposeSavesOnce ==
    op = "compose" =>
        /\ Len(save_calls) = 1
        /\ save_calls[1].file_path = file_path_arg
        /\ IsSortedStartEnd(save_calls[1].note_df)

\* the cells a saved note may come from: cells equal to 1 of the note's
\* time slot and program
SourceCells(note) ==
    { c \in OneCells(generated_arr) :
        /\ note.start = (c[1] * generated_arr.shape[2] + c[2]) * time_fraction
        /\ note.program = program_list[c[2] + 1] }

\* C4: when the pitch axis of the tensor is max_pitch - min_pitch long,
\* every note handed to save has pitch = min_pitch + the pitch index of its
\* cell, and min_pitch <= pitch <= max_pitch.
C4_PitchRange ==
    (op = "compose" /\ generated_arr.shape[4] = max_pitch - min_pitch) =>
        \A i \in 1..Len(save_calls) :
            \A j \in 1..Len(save_calls[i].note_df) :
                LET note == save_calls[i].note_df[j]
                IN  /\ \E c \in SourceCells(note) : note.pitch = min_pitch + c[4]
                    /\ min_pitch <= note.pitch
                    /\ note.pitch <= max_pitch

C4_Witness ==
    /\ op = "compose"
    /\ generated_arr.shape[4] = max_pitch - min_pitch
    /\ Len(save_calls) = 1
    /\ \E j \in 1..Len(save_calls[1].note_df) :
          save_calls[1].note_df[j].pitch = max_pitch - 1
    /\ \E j \in 1..Len(save_calls[1].note_df) :
          save_calls[1].note_df[j].pitch = min_pitch

\* the mean of the velocities of all notes of all files
MeanOfAllNotes(df_list) ==
    <<SumSeq([i \in 1..Len(df_list) |-> SumSeq(df_list[i])]),
      SumSeq([i \in 1..Len(df_list) |-> Len(df_list[i])])>>

\* C5: with velocity_mean = None the mean of the Gaussian the velocities
\* are sampled from is the mean velocity of all notes of all files; a
\* supplied velocity_mean is used unchanged.
C5_VelocityMean ==
    op = "compose" =>
        /\ velocity_mean_arg = NoneMean =>
              RatEq(velocity_loc, MeanOfAllNotes(midi_df_list))
        /\ velocity_mean_arg # NoneMean => velocity_loc = velocity_mean_arg
        /\ \A i \in 1..Len(generated_list) :
              generated_list[i].velocity = SampleVelocity(velocity_loc)

\* C6: an object supplied to the constructor is the one stored and used (the
\* true sampler and the models by train, the value function by the GAN, the
\* noise sampler by compose), and a default is built only for an argument
\* that is None.
C6_SuppliedObjectsAreUsed ==
    /\ \A n \in ArgNames : ctor_args[n] # None =>
          /\ constructed = "ok"
          /\ n \notin built
    /\ \A n \in ArgNames : ctor_args[n] = None => (constructed = "ok" => n \in built)
    /\ ctor_args["true_sampler"] # None => true_sampler = ctor_args["true_sampler"]
    /\ ctor_args["noise_sampler"] # None => noise_sampler = ctor_args["noise_sampler"]
    /\ ctor_args["gans_value_function"] # None =>
          GAN.gans_value_function = ctor_args["gans_value_function"]
    /\ (trained = <<>> /\ ctor_args["generative_model"] # None) =>
          generative_model = ctor_args["generative_model"]
    /\ (trained = <<>> /\ ctor_args["discriminative_model"] # None) =>
          discriminative_model = ctor_args["discriminative_model"]
    /\ (op = "learn" /\ ctor_args["true_sampler"] # None) =>
          train_call.true_sampler = ctor_args["true_sampler"]
    /\ (op = "learn" /\ ctor_args["gans_value_function"] # None) =>
          train_call.gans_value_function = ctor_args["gans_value_function"]

\* the notes of generated_list that a cell <<b, k, s, p>> accounts for
NotesOfCell(b, k, p) ==
    { i \in 1..Len(generated_list) :
        /\ generated_list[i].start = (b * generated_arr.shape[2] + k) * time_fraction
        /\ generated_list[i].end = generated_list[i].start + time_fraction
        /\ generated_list[i].program = program_list[k + 1]
        /\ generated_list[i].pitch = p + min_pitch }

\* C7: before the merge there is exactly one note for each cell
\* <<b, k, s, p>> equal to 1 and none for any other cell; the note has
\* program = program_list[k] and pitch = p + min_pitch.
C7_OneNotePerOneCell ==
    op = "compose" =>
        /\ Len(generated_list) = Cardinality(OneCells(generated_arr))
        /\ \A b \in 0..(generated_arr.shape[1] - 1), k \in 0..(generated_arr.shape[2] - 1),
              p \in 0..(generated_arr.shape[4] - 1) :
              Cardinality(NotesOfCell(b, k, p)) =
                  Cardinality({ c \in OneCells(generated_arr) :
                                   c[1] = b /\ c[2] = k /\ c[4] = p })

C7_Witness ==
    /\ op = "compose"
    /\ Cardinality(OneCells(generated_arr)) = 2
    /\ \E c \in Cells(generated_arr.shape) : generated_arr.val[c] = 2
    /\ \E c \in OneCells(generated_arr), d \in OneCells(generated_arr) :
          c[3] # d[3] /\ c[1] = d[1] /\ c[2] = d[2] /\ c[4] = d[4]
    /\ Len(generated_list) = 2

====
